---- MODULE Spec2Model ----
(***************************************************************************)
(* The "Pokemon Name Jar" of streamlit_app.py: two SQLite tables           *)
(* (suggestions, assignments), the submit / draw / clear handlers of the   *)
(* Streamlit script, and the draw pool the script builds on every run.     *)
(*                                                                         *)
(* Text is modelled as a sequence of one-character strings, so that        *)
(* str.strip(), str.lower(), len() and sorted() are computed, not assumed. *)
(*                                                                         *)
(* Every interaction reruns the script.  A run writes only in the handler  *)
(* of the button pressed; the tables, captions and download buttons it     *)
(* renders besides only read, and are left out.  The pool is kept for draw *)
(* runs, where the handler reads it.                                       *)
(***************************************************************************)
EXTENDS Integers, Sequences, FiniteSets, TLC

\* ------------------------------------------------------------------ bounds
\* Total number of INSERTs (into either table) in one behaviour.
MaxInserts == 4

\* ------------------------------------------------------------- constants
\* "Name is too long (max 50 characters)."
MaxNameLen == 50

\* os.getenv("SECRET_KEY", ""), for a deployment that sets it.
SECRET_KEY == "hunter2"

\* ------------------------------------------------------------------ text
UpperCase == <<"A","B","C","D","E","F","G","H","I","J","K","L","M",
               "N","O","P","Q","R","S","T","U","V","W","X","Y","Z">>
LowerCase == <<"a","b","c","d","e","f","g","h","i","j","k","l","m",
               "n","o","p","q","r","s","t","u","v","w","x","y","z">>

\* The characters str.strip() removes (of those the inputs use).
Whitespace == {" ", "\t"}

Letters == 1..Len(UpperCase)
Chars == Whitespace \cup {UpperCase[i] : i \in Letters} \cup {LowerCase[i] : i \in Letters}

\* ord(c): the code point, which is what sorted() compares strings by.
Ord == [c \in Chars |->
          IF c = "\t" THEN 9
          ELSE IF c = " " THEN 32
          ELSE IF \E i \in Letters : UpperCase[i] = c
               THEN 64 + (CHOOSE i \in Letters : UpperCase[i] = c)
               ELSE 96 + (CHOOSE i \in Letters : LowerCase[i] = c)]

\* chr(n), for the code points of Chars.
Chr(n) == CHOOSE c \in Chars : Ord[c] = n

LowerChar == [c \in Chars |-> IF Ord[c] >= 65 /\ Ord[c] <= 90 THEN Chr(Ord[c] + 32) ELSE c]

\* str.lower()
Lower(s) == [i \in 1..Len(s) |-> LowerChar[s[i]]]

\* str.strip(): drop leading and trailing whitespace.
RECURSIVE FirstKept(_, _)
FirstKept(s, i) ==
    IF i > Len(s) THEN i
    ELSE IF s[i] \in Whitespace THEN FirstKept(s, i + 1) ELSE i

RECURSIVE LastKept(_, _)
LastKept(s, i) ==
    IF i < 1 THEN i
    ELSE IF s[i] \in Whitespace THEN LastKept(s, i - 1) ELSE i

Strip(s) == SubSeq(s, FirstKept(s, 1), LastKept(s, Len(s)))

\* a < b for Python strings: lexicographic by code point.
RECURSIVE StrLess(_, _)
StrLess(a, b) ==
    IF b = <<>> THEN FALSE
    ELSE IF a = <<>> THEN TRUE
    ELSE IF Ord[Head(a)] # Ord[Head(b)] THEN Ord[Head(a)] < Ord[Head(b)]
    ELSE StrLess(Tail(a), Tail(b))

\* sorted(S) for a collection S of distinct strings.
RECURSIVE Sorted(_)
Sorted(S) ==
    IF S = {} THEN <<>>
    ELSE LET m == CHOOSE x \in S : \A y \in S \ {x} : StrLess(x, y)
         IN  <<m>> \o Sorted(S \ {m})

Repeat(c, n) == [i \in 1..n |-> c]

\* ------------------------------------------------------------------ inputs
Luna   == <<"L","u","n","a">>
luna   == <<"l","u","n","a">>
Blaze  == <<"B","l","a","z","e">>
Ash    == <<"A","s","h">>
Pikachu == <<"P","i","k","a","c","h","u">>

\* What a user may type into name_form: "Name idea*" and "Your name (optional)".
FormInputs ==
    { <<<<>>, <<>>>>,
      <<<<" ", "\t">>, Ash>>,
      <<Luna, <<" ">> \o Ash>>,
      <<luna, <<>>>>,
      <<<<" ">> \o Blaze \o <<"\t">>, Ash \o <<" ">>>>,
      <<Repeat("x", MaxNameLen + 1), <<>>>> }

\* What a user may type into "Pokemon to name*".
PokemonInputs == { <<>>, <<" ">>, Pikachu \o <<" ">> }

\* What a user may type into "Admin key (optional)".
AdminKeyInputs == { "", SECRET_KEY, "guess" }

\* Browser sessions. Every interaction reruns the script in the session's
\* own thread, with its own connection (get_conn has no lock). Runs executed
\* one after another differ only in the widget values they carry, so one
\* session stands for all users in Spec; SpecConc interleaves two.
Sessions == {"s1", "s2"}
SeqSessions == {"s1"}

Tables == {"suggestions", "assignments"}

\* ------------------------------------------------------------------ state
VARIABLES
    suggestions,      \* table suggestions: rows [id, name, user, ts]
    assignments,      \* table assignments: rows [id, pokemon, chosen_name, ts]
    sqlite_sequence,  \* AUTOINCREMENT bookkeeping: largest id ever used, per table
    clock,            \* datetime.utcnow(), as a logical clock
    request,          \* per session: the button pressed in the latest run and
                      \*   the widget values its handler reads
    pc,               \* per session: position of a draw run in progress
    pool_df,          \* per session, draw run: names read from suggestions
    assigned,         \* per session, draw run: lowercased names read from assignments
    draw_pool,        \* per session, draw run: the pool built
    chosen,           \* per session, draw run: result of random.choice
    shown,            \* per session: the message the latest handler displayed
    appended,         \* history: per table, rows INSERTed since its last DELETE, oldest first
    issued            \* history: per table, every id an INSERT ever assigned

dbvars   == <<suggestions, assignments, sqlite_sequence, clock>>
locals   == <<pool_df, assigned, draw_pool, chosen>>
history  == <<appended, issued>>
vars == <<suggestions, assignments, sqlite_sequence, clock, request, pc, pool_df,
          assigned, draw_pool, chosen, shown, appended, issued>>

\* ------------------------------------------------------------- DB helpers
MaxOf(S) == IF S = {} THEN 0 ELSE CHOOSE m \in S : \A x \in S : x <= m

\* Variant of NextId: a plain INTEGER PRIMARY KEY, one more than the largest
\* id the table holds now.
NextId_Rowid(rows, seq) == MaxOf({r.id : r \in rows}) + 1

\* INTEGER PRIMARY KEY AUTOINCREMENT: one more than the largest id the table
\* ever held (sqlite_sequence survives DELETE FROM).
NextId(rows, seq) ==
    LET largest == MaxOf({r.id : r \in rows})
    IN  (IF seq > largest THEN seq ELSE largest) + 1

\* Variant of OrderByIdDesc: ORDER BY id, oldest first.
RECURSIVE OrderByIdAsc(_)
OrderByIdAsc(rows) ==
    IF rows = {} THEN <<>>
    ELSE LET low == CHOOSE r \in rows : \A q \in rows : r.id <= q.id
         IN  <<low>> \o OrderByIdAsc(rows \ {low})

\* SELECT ... ORDER BY id DESC
RECURSIVE OrderByIdDesc(_)
OrderByIdDesc(rows) ==
    IF rows = {} THEN <<>>
    ELSE LET top == CHOOSE r \in rows : \A q \in rows : q.id <= r.id
         IN  <<top>> \o OrderByIdDesc(rows \ {top})

list_suggestions(rows) == OrderByIdDesc(rows)
list_assignments(rows) == OrderByIdDesc(rows)

\* The row add_suggestion INSERTs.
SuggestionRow(id, name, user, ts) ==
    [id |-> id, name |-> Strip(name), user |-> Strip(user), ts |-> ts]

\* The row add_assignment INSERTs.
AssignmentRow(id, pokemon, chosen_name, ts) ==
    [id |-> id, pokemon |-> Strip(pokemon), chosen_name |-> Strip(chosen_name), ts |-> ts]

\* DELETE FROM suggestions / DELETE FROM assignments
clear_suggestions(rows) == {}
clear_assignments(rows) == {}

\* df[col].tolist()
Column(rowseq, col) == [i \in 1..Len(rowseq) |-> rowseq[i][col]]

\* ------------------------------------------------------------- the script
\* Variant of Validate: the length is not checked.
Validate_AnyLength(name) ==
    IF name = <<>> \/ Strip(name) = <<>> THEN "invalid" ELSE "ok"

\* The validation of the submit handler.
Validate(name) ==
    IF name = <<>> \/ Strip(name) = <<>> THEN "invalid"
    ELSE IF Len(Strip(name)) > MaxNameLen THEN "too_long"
    ELSE "ok"

\* `admin_key and st.button(...)`: the button exists for any non-empty key.
AdminUnlocked(key) == key # ""

\* Variant of Assigned: the chosen names are compared as stored, not lowercased.
Assigned_AsStored(unique, asg) ==
    IF unique THEN {r.chosen_name : r \in asg} ELSE {}

\* assigned = set(list_assignments(conn)["chosen_name"].str.lower().tolist())
\* when unique_only, else set()
Assigned(unique, asg) ==
    IF unique
    THEN LET names == Column(list_assignments(asg), "chosen_name")
         IN  {Lower(names[i]) : i \in 1..Len(names)}
    ELSE {}

\* Variant of Filter: the name is looked up as stored, not lowercased.
RECURSIVE Filter_AsStored(_, _)
Filter_AsStored(names, excl) ==
    IF names = <<>> THEN <<>>
    ELSE (IF Head(names) \notin excl THEN <<Head(names)>> ELSE <<>>)
         \o Filter_AsStored(Tail(names), excl)

\* [n for n in names if n.lower() not in assigned]
RECURSIVE Filter(_, _)
Filter(names, excl) ==
    IF names = <<>> THEN <<>>
    ELSE (IF Lower(Head(names)) \notin excl THEN <<Head(names)>> ELSE <<>>)
         \o Filter(Tail(names), excl)

\* Variant of Collapsed: the dictionary is keyed by the lowercased name.
Collapsed_KeyedByLower(names, excl) ==
    Sorted({Lower(Strip(names[i])) : i \in {j \in 1..Len(names) :
                /\ Strip(names[j]) # <<>>
                /\ Lower(names[j]) \notin excl}})

\* sorted({n.strip(): None for n in names if n.strip() and n.lower() not in assigned}.keys())
Collapsed(names, excl) ==
    Sorted({Strip(names[i]) : i \in {j \in 1..Len(names) :
                /\ Strip(names[j]) # <<>>
                /\ Lower(names[j]) \notin excl}})

\* Variant of DrawPool: the toggle is ignored, duplicates always stay in.
DrawPool_KeepsDuplicates(allow_dup, names, excl) == Filter(names, excl)

\* Variant of DrawPool: names already assigned are not taken out.
DrawPool_KeepsAssigned(allow_dup, names, excl) ==
    IF allow_dup THEN Filter(names, {}) ELSE Collapsed(names, {})

\* Build draw pool
DrawPool(allow_dup, names, excl) ==
    IF allow_dup THEN Filter(names, excl) ELSE Collapsed(names, excl)

\* The branch the draw handler takes.
DrawBranch(pokemon, pool) ==
    IF Strip(pokemon) = <<>> THEN "no_pokemon"
    ELSE IF pool = <<>> THEN "empty_pool"
    ELSE "draw"

\* st.error / st.warning / st.success
NoMessage == [kind |-> "none", text |-> "", pokemon |-> <<>>, name |-> <<>>]
Message(kind, text) == [kind |-> kind, text |-> text, pokemon |-> <<>>, name |-> <<>>]
Added(name) ==
    [kind |-> "success", text |-> "Added", pokemon |-> <<>>, name |-> Strip(name)]
ChosenFor(pokemon, name) ==
    [kind |-> "success", text |-> "Chosen name for", pokemon |-> Strip(pokemon), name |-> name]
DrawRefused(branch) ==
    IF branch = "no_pokemon"
    THEN Message("error", "Please enter the Pokemon to name.")
    ELSE Message("warning", "No available names to draw from. Collect more first.")

\* The widget values a handler reads, by button.
SubmitRequest(name, user) == [op |-> "submit", name |-> name, user |-> user]
ClearRequest(op, key) == [op |-> op, admin_key |-> key]
DrawRequest(pokemon, unique, allow_dup) ==
    [op |-> "draw", pokemon_name |-> pokemon, unique_only |-> unique,
     allow_duplicates_in_pool |-> allow_dup]

Init ==
    /\ suggestions = {}
    /\ assignments = {}
    /\ sqlite_sequence = [t \in Tables |-> 0]
    /\ clock = 0
    /\ request = [s \in Sessions |-> [op |-> "none"]]
    /\ pc = [s \in Sessions |-> "idle"]
    /\ pool_df = [s \in Sessions |-> <<>>]
    /\ assigned = [s \in Sessions |-> {}]
    /\ draw_pool = [s \in Sessions |-> <<>>]
    /\ chosen = [s \in Sessions |-> <<>>]
    /\ shown = [s \in Sessions |-> NoMessage]
    /\ appended = [t \in Tables |-> <<>>]
    /\ issued = [t \in Tables |-> {}]

\* ---------------------------------------------------------------- writes
\* add_suggestion: INSERT INTO suggestions ...; commit
add_suggestion(name, user) ==
    LET id  == NextId(suggestions, sqlite_sequence["suggestions"])
        row == SuggestionRow(id, name, user, clock)
    IN  /\ clock < MaxInserts
        /\ suggestions' = suggestions \cup {row}
        /\ sqlite_sequence' = [sqlite_sequence EXCEPT !["suggestions"] = id]
        /\ clock' = clock + 1
        /\ appended' = [appended EXCEPT !["suggestions"] = Append(@, row)]
        /\ issued' = [issued EXCEPT !["suggestions"] = @ \cup {id}]
        /\ UNCHANGED assignments

\* add_assignment: INSERT INTO assignments ...; commit
add_assignment(pokemon, chosen_name) ==
    LET id  == NextId(assignments, sqlite_sequence["assignments"])
        row == AssignmentRow(id, pokemon, chosen_name, clock)
    IN  /\ clock < MaxInserts
        /\ assignments' = assignments \cup {row}
        /\ sqlite_sequence' = [sqlite_sequence EXCEPT !["assignments"] = id]
        /\ clock' = clock + 1
        /\ appended' = [appended EXCEPT !["assignments"] = Append(@, row)]
        /\ issued' = [issued EXCEPT !["assignments"] = @ \cup {id}]
        /\ UNCHANGED suggestions

\* A run that is not a draw leaves nothing of an earlier draw run behind:
\* the script's variables do not outlive the run.
NoDrawLocals(s) ==
    /\ pool_df' = [pool_df EXCEPT ![s] = <<>>]
    /\ assigned' = [assigned EXCEPT ![s] = {}]
    /\ draw_pool' = [draw_pool EXCEPT ![s] = <<>>]
    /\ chosen' = [chosen EXCEPT ![s] = <<>>]

\* --------------------------------------------------------------- handlers
\* "Submit" of name_form.
Submit(s, name, user) ==
    /\ pc[s] = "idle"
    /\ request' = [request EXCEPT ![s] = SubmitRequest(name, user)]
    /\ IF Validate(name) = "ok"
       THEN /\ add_suggestion(Strip(name), user)
            /\ shown' = [shown EXCEPT ![s] = Added(name)]
       ELSE /\ UNCHANGED <<dbvars, history>>
            /\ shown' = [shown EXCEPT ![s] =
                    IF Validate(name) = "invalid"
                    THEN Message("error", "Please enter a valid name.")
                    ELSE Message("error", "Name is too long (max 50 characters).")]
    /\ NoDrawLocals(s)
    /\ UNCHANGED pc

\* "Clear all suggestions (admin)": clear_suggestions, then experimental_rerun
\* (the st.success before it is never left on the page).
ClearSuggestions(s, key) ==
    /\ pc[s] = "idle"
    /\ AdminUnlocked(key)
    /\ request' = [request EXCEPT ![s] = ClearRequest("clear_suggestions", key)]
    /\ suggestions' = clear_suggestions(suggestions)
    /\ appended' = [appended EXCEPT !["suggestions"] = <<>>]
    /\ shown' = [shown EXCEPT ![s] = NoMessage]
    /\ NoDrawLocals(s)
    /\ UNCHANGED <<assignments, sqlite_sequence, clock, issued, pc>>

\* "Clear all assignments (admin)": clear_assignments, then experimental_rerun.
ClearAssignments(s, key) ==
    /\ pc[s] = "idle"
    /\ AdminUnlocked(key)
    /\ request' = [request EXCEPT ![s] = ClearRequest("clear_assignments", key)]
    /\ assignments' = clear_assignments(assignments)
    /\ appended' = [appended EXCEPT !["assignments"] = <<>>]
    /\ shown' = [shown EXCEPT ![s] = NoMessage]
    /\ NoDrawLocals(s)
    /\ UNCHANGED <<suggestions, sqlite_sequence, clock, issued, pc>>

\* "Draw a random name", a whole run with no other session's step in
\* between: read both tables, build the pool, pick, record.
Draw(s, pokemon, unique, allow_dup) ==
    LET names  == Column(list_suggestions(suggestions), "name")
        excl   == Assigned(unique, assignments)
        pool   == DrawPool(allow_dup, names, excl)
        branch == DrawBranch(pokemon, pool)
    IN  /\ pc[s] = "idle"
        /\ request' = [request EXCEPT ![s] = DrawRequest(pokemon, unique, allow_dup)]
        /\ pool_df' = [pool_df EXCEPT ![s] = names]
        /\ assigned' = [assigned EXCEPT ![s] = excl]
        /\ draw_pool' = [draw_pool EXCEPT ![s] = pool]
        /\ IF branch = "draw"
           THEN \E i \in 1..Len(pool) :
                    /\ chosen' = [chosen EXCEPT ![s] = pool[i]]
                    /\ shown' = [shown EXCEPT ![s] = ChosenFor(pokemon, pool[i])]
                    /\ add_assignment(Strip(pokemon), pool[i])
           ELSE /\ chosen' = [chosen EXCEPT ![s] = <<>>]
                /\ shown' = [shown EXCEPT ![s] = DrawRefused(branch)]
                /\ UNCHANGED <<dbvars, history>>
        /\ UNCHANGED pc

Next ==
    \E s \in SeqSessions :
        \/ \E form \in FormInputs : Submit(s, form[1], form[2])
        \/ \E key \in AdminKeyInputs : ClearSuggestions(s, key)
        \/ \E key \in AdminKeyInputs : ClearAssignments(s, key)
        \/ \E p \in PokemonInputs, u \in BOOLEAN, d \in BOOLEAN : Draw(s, p, u, d)

Spec == Init /\ [][Next]_vars

\* ------------------------------------- draw runs, step by step (SpecConc)
\* "Draw a random name" pressed with "Use unique names" on (its default):
\* the run starts, nothing read yet.
BeginDraw(s, pokemon, allow_dup) ==
    /\ pc[s] = "idle"
    /\ request' = [request EXCEPT ![s] = DrawRequest(pokemon, TRUE, allow_dup)]
    /\ pc' = [pc EXCEPT ![s] = "read_suggestions"]
    /\ shown' = [shown EXCEPT ![s] = NoMessage]
    /\ NoDrawLocals(s)
    /\ UNCHANGED <<dbvars, history>>

\* pool_df = list_suggestions(conn)
ReadSuggestions(s) ==
    /\ pc[s] = "read_suggestions"
    /\ pool_df' = [pool_df EXCEPT ![s] = Column(list_suggestions(suggestions), "name")]
    /\ pc' = [pc EXCEPT ![s] = "read_assignments"]
    /\ UNCHANGED <<dbvars, history, request, assigned, draw_pool, chosen, shown>>

\* assigned = set(list_assignments(conn)...); then the pool is built from
\* what the run has read.
ReadAssignments(s) ==
    LET excl == Assigned(request[s].unique_only, assignments)
    IN  /\ pc[s] = "read_assignments"
        /\ assigned' = [assigned EXCEPT ![s] = excl]
        /\ draw_pool' = [draw_pool EXCEPT ![s] =
                DrawPool(request[s].allow_duplicates_in_pool, pool_df[s], excl)]
        /\ pc' = [pc EXCEPT ![s] = "pick"]
        /\ UNCHANGED <<dbvars, history, request, pool_df, chosen, shown>>

\* if pick: ... chosen = random.choice(draw_pool); st.success(...)
Pick(s) ==
    LET branch == DrawBranch(request[s].pokemon_name, draw_pool[s])
    IN  /\ pc[s] = "pick"
        /\ IF branch = "draw"
           THEN \E i \in 1..Len(draw_pool[s]) :
                    /\ chosen' = [chosen EXCEPT ![s] = draw_pool[s][i]]
                    /\ shown' = [shown EXCEPT ![s] =
                            ChosenFor(request[s].pokemon_name, draw_pool[s][i])]
                    /\ pc' = [pc EXCEPT ![s] = "add_assignment"]
           ELSE /\ shown' = [shown EXCEPT ![s] = DrawRefused(branch)]
                /\ pc' = [pc EXCEPT ![s] = "idle"]
                /\ UNCHANGED chosen
        /\ UNCHANGED <<dbvars, history, request, pool_df, assigned, draw_pool>>

\* add_assignment(conn, pokemon=pokemon_name.strip(), chosen_name=chosen)
WriteAssignment(s) ==
    /\ pc[s] = "add_assignment"
    /\ add_assignment(Strip(request[s].pokemon_name), chosen[s])
    /\ pc' = [pc EXCEPT ![s] = "idle"]
    /\ UNCHANGED <<request, locals, shown>>

\* The interleavings are explored for fewer inputs than the runs of Spec.
ConcFormInputs == { <<Luna, <<" ">> \o Ash>>, <<luna, <<>>>>, <<<<" ", "\t">>, Ash>> }
ConcPokemonInputs == { <<>>, Pikachu \o <<" ">> }

NextConc ==
    \E s \in Sessions :
        \/ \E form \in ConcFormInputs : Submit(s, form[1], form[2])
        \/ ClearAssignments(s, SECRET_KEY)
        \/ \E p \in ConcPokemonInputs, d \in BOOLEAN : BeginDraw(s, p, d)
        \/ ReadSuggestions(s)
        \/ ReadAssignments(s)
        \/ Pick(s)
        \/ WriteAssignment(s)

SpecConc == Init /\ [][NextConc]_vars

\* ============================================================ properties
\* The session whose runs Spec executes.
S1 == "s1"

\* The step is a draw request of S1 (every handler records its own request).
DrawStep == request'[S1].op = "draw"

Entries(pool) == {pool[i] : i \in 1..Len(pool)}

\* C1: a draw request either appends exactly one assignment, whose subject is
\* the trimmed requested subject and whose chosen name is the reported name,
\* an entry of the pool built for the request and the name of an existing
\* suggestion, or appends nothing; either way the suggestions and the
\* assignments already recorded stay as they are.
C1_DrawAllOrNothing ==
    [][DrawStep =>
        /\ suggestions' = suggestions
        /\ \/ /\ assignments' = assignments
              /\ shown'[S1].kind # "success"
           \/ \E row \in assignments' \ assignments :
                /\ assignments' = assignments \cup {row}
                /\ row.pokemon = Strip(request'[S1].pokemon_name)
                /\ shown'[S1].kind = "success"
                /\ shown'[S1].name = row.chosen_name
                /\ row.chosen_name \in Entries(draw_pool'[S1])
                /\ \E r \in suggestions : r.name = row.chosen_name]_vars

C1_Witness ==
    /\ request[S1].op = "draw"
    /\ shown[S1].kind = "success"
    /\ Cardinality(assignments) = 2
    /\ \E row \in assignments :
         /\ row.chosen_name = shown[S1].name
         /\ row.pokemon = Pikachu
         /\ \E r \in suggestions : r.name = row.chosen_name

\* The names the draws since the last clear of assignments have returned.
DrawnSinceClear ==
    {appended["assignments"][i].chosen_name : i \in 1..Len(appended["assignments"])}

\* C2: runs one after another: a draw with "unique names" on never returns a
\* name equal, ignoring case, to a name a draw has returned since the
\* assignments were last cleared.
C2_NeverDrawnAgain ==
    [][(DrawStep /\ request'[S1].unique_only /\ assignments' # assignments) =>
        \A x \in DrawnSinceClear : Lower(x) # Lower(shown'[S1].name)]_vars

C2_Witness ==
    /\ request[S1].op = "draw"
    /\ request[S1].unique_only
    /\ shown[S1].kind = "success"
    /\ Len(appended["assignments"]) = 2
    /\ appended["assignments"][1].chosen_name # appended["assignments"][2].chosen_name

\* C3: two sessions drawing with "unique names" on, their steps interleaved:
\* the assignments table (the rows written since its last clear) never holds
\* two rows whose chosen names are equal ignoring case.
C3_NoNameDrawnTwice ==
    \A r, q \in assignments :
        r # q => Lower(r.chosen_name) # Lower(q.chosen_name)

\* The latest run of S1 was a draw with "Include duplicate suggestions" off.
CollapsedDraw ==
    /\ request[S1].op = "draw"
    /\ ~request[S1].allow_duplicates_in_pool

\* The run read the suggestions Luna, luna and Blaze and no assignment, with
\* "unique names" on.
LunaExample ==
    /\ request[S1].unique_only
    /\ Len(pool_df[S1]) = 3
    /\ Entries(pool_df[S1]) = {Luna, luna, Blaze}
    /\ assigned[S1] = {}

\* C4 as stated: with duplicates collapsed, no two pool entries are equal
\* after lowercasing, and for Luna, luna, Blaze the pool is Blaze, Luna.
C4_OnePerLowercaseName ==
    CollapsedDraw =>
        /\ \A i, j \in 1..Len(draw_pool[S1]) :
              i # j => Lower(draw_pool[S1][i]) # Lower(draw_pool[S1][j])
        /\ LunaExample => Entries(draw_pool[S1]) = {Blaze, Luna}

\* C4 as amended: with duplicates collapsed, no two pool entries are the same
\* string, every name read and not excluded is an entry, and for Luna, luna,
\* Blaze the pool is Blaze, Luna, luna: names that differ only in case are
\* separate entries.
C4_OnePerExactName ==
    CollapsedDraw =>
        /\ \A i, j \in 1..Len(draw_pool[S1]) :
              i # j => draw_pool[S1][i] # draw_pool[S1][j]
        /\ Entries(draw_pool[S1]) =
              {n \in Entries(pool_df[S1]) : Lower(n) \notin assigned[S1]}
        /\ LunaExample => draw_pool[S1] = <<Blaze, Luna, luna>>

C4_Witness ==
    /\ CollapsedDraw
    /\ LunaExample
    /\ draw_pool[S1] = <<Blaze, Luna, luna>>
    /\ shown[S1].kind = "success"

\* No suggestion is eligible for the draw being requested: there is none, or
\* "unique names" is on and each one's name, ignoring case, is already chosen.
NothingEligible ==
    \/ suggestions = {}
    \/ /\ request'[S1].unique_only
       /\ \A r \in suggestions :
            \E q \in assignments : Lower(q.chosen_name) = Lower(r.name)

\* C5: a draw requested (for a named subject) when nothing is eligible ends
\* with the empty-pool warning, and no draw requested then, named subject or
\* not, changes either table.
C5_EmptyPoolNoChange ==
    [][(DrawStep /\ NothingEligible) =>
        /\ suggestions' = suggestions
        /\ assignments' = assignments
        /\ sqlite_sequence' = sqlite_sequence
        /\ shown'[S1].kind # "success"
        /\ Strip(request'[S1].pokemon_name) # <<>> => shown'[S1].kind = "warning"]_vars

C5_Witness ==
    /\ request[S1].op = "draw"
    /\ request[S1].unique_only
    /\ shown[S1].kind = "warning"
    /\ suggestions # {}
    /\ assignments # {}

Rows(t) == IF t = "suggestions" THEN suggestions ELSE assignments
ListAll(t) ==
    IF t = "suggestions" THEN list_suggestions(suggestions)
    ELSE list_assignments(assignments)
Reverse(q) == [i \in 1..Len(q) |-> q[Len(q) + 1 - i]]

\* C6: for each table, the list read back is exactly the rows inserted since
\* the table was last cleared, newest first, with strictly decreasing ids.
C6_ListIsAppendedNewestFirst ==
    \A t \in Tables :
        /\ ListAll(t) = Reverse(appended[t])
        /\ \A i, j \in 1..Len(ListAll(t)) :
              i < j => ListAll(t)[i].id > ListAll(t)[j].id

C6_Witness ==
    /\ Len(appended["suggestions"]) = 2
    /\ Len(appended["assignments"]) = 1
    /\ Cardinality(issued["suggestions"]) = 3

\* C7: a clear leaves the table's list empty, and an insert never assigns an
\* id that is not greater than every id the table assigned before, cleared
\* or not.
C7_IdsNeverReused ==
    [][/\ \A t \in Tables : \A row \in Rows(t)' \ Rows(t) :
              \A i \in issued[t] : row.id > i
       /\ request'[S1].op = "clear_suggestions" => list_suggestions(suggestions') = <<>>
       /\ request'[S1].op = "clear_assignments" => list_assignments(assignments') = <<>>]_vars

C7_Witness ==
    \A t \in Tables :
        /\ Rows(t) # {}
        /\ \E i \in issued[t] : \A row \in Rows(t) : row.id > i

\* C8: a submitted name that is empty or longer than 50 characters once
\* trimmed gets an error and changes no table; every stored suggestion name
\* is non-empty, at most 50 characters long, and has no whitespace at either
\* end.
C8_NamesValidated ==
    /\ [](\A r \in suggestions :
            /\ r.name # <<>>
            /\ Len(r.name) <= 50
            /\ r.name[1] \notin Whitespace
            /\ r.name[Len(r.name)] \notin Whitespace)
    /\ [][(/\ request'[S1].op = "submit"
           /\ \/ Strip(request'[S1].name) = <<>>
              \/ Len(Strip(request'[S1].name)) > 50) =>
            /\ shown'[S1].kind = "error"
            /\ suggestions' = suggestions
            /\ assignments' = assignments]_vars

C8_Witness ==
    /\ request[S1].op = "submit"
    /\ Len(Strip(request[S1].name)) > 50
    /\ shown[S1].kind = "error"
    /\ suggestions # {}

Count(pool, n) == Cardinality({i \in 1..Len(pool) : pool[i] = n})

\* C9: with "Include duplicate suggestions" on, each name is in the pool as
\* many times as there are suggestions with exactly that name, or not at all
\* when "unique names" is on and the name, ignoring case, is already chosen;
\* with "unique names" off the pool is as long as the suggestions table.
C9_PoolIsMultiset ==
    [][(DrawStep /\ request'[S1].allow_duplicates_in_pool) =>
        /\ \A n \in {r.name : r \in suggestions} \cup Entries(draw_pool'[S1]) :
              Count(draw_pool'[S1], n) =
                 IF /\ request'[S1].unique_only
                    /\ \E q \in assignments : Lower(q.chosen_name) = Lower(n)
                 THEN 0
                 ELSE Cardinality({r \in suggestions : r.name = n})
        /\ ~request'[S1].unique_only =>
              Len(draw_pool'[S1]) = Cardinality(suggestions)]_vars

C9_Witness ==
    /\ request[S1].op = "draw"
    /\ request[S1].allow_duplicates_in_pool
    /\ request[S1].unique_only
    /\ draw_pool[S1] = <<Luna, Luna>>
    /\ assigned[S1] = {Lower(Blaze)}

\* C10: a step that removes rows from a table is a clear requested with the
\* admin key equal to SECRET_KEY.
C10_ClearOnlyWithSecret ==
    [][(\/ \E r \in suggestions : r \notin suggestions'
        \/ \E r \in assignments : r \notin assignments') =>
            request'[S1].admin_key = SECRET_KEY]_vars

====
